---- MODULE Spec2Model ----
(***************************************************************************)
(* The task admission, queueing, execution and notification engine of      *)
(* src/app.py (create_app): the queue_task wrapper run by concurrent       *)
(* request handlers, the shared task_queue and the single process_queue    *)
(* thread.                                                                 *)
(*                                                                         *)
(* A request is identified by the job_id its wrapper activation draws, so  *)
(* wrapper's locals are indexed by job_id.  Envelope fields that are       *)
(* constants of the process (pid, queue_id, build_number), the echoed      *)
(* "id" and the endpoint name are left out, and so is queue_length in the  *)
(* two result envelopes; the acknowledgement and the rejection keep it.    *)
(***************************************************************************)
EXTENDS Integers, Sequences, FiniteSets, TLC

VARIABLES
    MAX_QUEUE_LENGTH,   \* app.py:29, read once from the environment
    task_queue,         \* app.py:35, the Queue's content, head first
    next_id,            \* the next job_id uuid.uuid4() hands out (app.py:97)
    pc,                 \* per job_id: position of its wrapper activation
    data,               \* per job_id: request.json
    bypass_queue,       \* per job_id: the decorator option of its endpoint
    response,           \* per job_id: what f returned (wrapper's or the loop's local)
    seen_qsize,         \* per job_id: queue length when the capacity gate ran
    worker_pc,          \* per loop thread: position in process_queue
    worker_job,         \* per loop thread: the tuple task_queue.get() returned
    job_trace,          \* per job_id: the calls made about the job, in order
    loop_calls,         \* the calls of the loop threads, in order
    pushed,             \* the job_ids put on the queue, in put order
    returned,           \* per job_id: what wrapper returned to the caller
    now,                \* what time.time() showed at its last read
    times,              \* per job_id: the timing locals of wrapper and the loop
    clock_limit,        \* how far the clock gets over the run
    request_kinds,      \* the requests the callers may send
    closure_results,    \* what the endpoints' work closures may do
    admissions_left,    \* requests the callers will still send
    handlers,           \* the request handler threads of the server
    failing,            \* the collaborators that may fail
    fault_budget        \* failures they will still have

vars == <<MAX_QUEUE_LENGTH, task_queue, next_id, pc, data, bypass_queue,
          response, seen_qsize, worker_pc, worker_job,
          job_trace, loop_calls, pushed, returned, now, times, clock_limit,
          request_kinds, closure_results, admissions_left, handlers, failing,
          fault_budget>>

----------------------------------------------------------------------------
(* Bounds *)

NumHandlers == 2    \* request handlers that can be inside wrapper at once
MaxJobs == 2        \* admissions over a run whose collaborators never fail
MaxFaultyJobs == 2  \* admissions over a run with a collaborator that may fail
MaxFaults == 1      \* failures of that collaborator over such a run
MaxWideJobs == 2    \* admissions over a run with the wide choice of closure results
MaxBurstJobs == 3   \* admissions over a run that tries the capacity gate
MaxTimedJobs == 2   \* admissions over a run whose clock advances
MaxCrashJobs == 3   \* admissions over a run in which the loop thread may end
MaxSerialJobs == 2  \* admissions over a run of every request kind, one at a time
MaxClock == 3       \* ticks of the clock over such a run

----------------------------------------------------------------------------
(* Values *)

None == "None"

\* The job_ids uuid.uuid4() hands out over the longest run.
JobIds ==
    LET runs == {MaxJobs, MaxFaultyJobs, MaxWideJobs, MaxBurstJobs, MaxTimedJobs,
                 MaxCrashJobs, MaxSerialJobs}
    IN 1..(CHOOSE m \in runs : \A n \in runs : n <= m)

\* create_app() starting the loop thread twice.
TwoLoopThreads == {1, 2}

\* threading.Thread(target=process_queue, daemon=True).start(): one thread.
LoopThreads == {1}

\* int(os.environ.get('MAX_QUEUE_LENGTH', 0)): 0 means unlimited.
MaxQueueLengthValues == {0, 1}

HookUrl == "http://example.test/hook"

NoData == [k \in {} |-> None]

\* request.json: the reserved callback key is absent, empty or an address.
Payloads == { NoData, [webhook_url |-> ""], [webhook_url |-> HookUrl] }

\* The requests: the bypass_queue option of the endpoint hit and the payload.
Requests == BOOLEAN \X Payloads

\* Two of them: one that runs inline, one that is deferred and notified.
TwoRequests == { <<FALSE, NoData>>, <<FALSE, [webhook_url |-> HookUrl]>> }

\* What f returns: (result_body, endpoint_name, status_code); the endpoint
\* name is fixed.
Results == { <<"body", "x", 200>>, <<"oops", "x", 500>> }

\* The one result of a closure that succeeds.
Success == { <<"body", "x", 200>> }

\* A wider choice: an empty body, and a closure that passes 429 through.
WideResults == Results \cup { <<None, "x", 200>>, <<None, "x", 500>>,
                              <<"busy", "x", 429>> }

\* f raising instead of returning.
Raised == <<"raised", "x", -1>>
NotCalled == <<"not called", "x", -2>>

\* What a call of f may do.
Outcomes == closure_results

\* dict.get(key)
DictGet(d, k) == IF k \in DOMAIN d THEN d[k] ELSE None

\* Python truthiness of data.get("webhook_url")
Truthy(v) == v # None /\ v # ""

NoEnvelope == [code |-> 0, job_id |-> 0, response |-> None, message |-> None,
               queue_length |-> 0]

\* The timing locals before any clock read.
NoTimes == [start_time |-> 0, queue_time |-> 0, run_start_time |-> 0,
            run_time |-> 0, total_time |-> 0]

\* The clock ticks in thirds of a millisecond.
TicksPerMilli == 3

\* round(seconds, 3): to the nearest millisecond; a whole number of thirds
\* is never half-way between two.
Round3(ticks) == (2 * ticks + TicksPerMilli) \div (2 * TicksPerMilli)

\* time.time() on a monotonic clock: what it may show at the read after the
\* one that showed t.
Later(t) == { u \in {t, t + 1} : u <= clock_limit }

\* time.time() - since
Elapsed(t, since) == t - since

\* total_time measured from run_start_time.
TotalTimeFromRunStart(t) == t.run_start_time

\* app.py:57: total_time is measured from queue_start_time, the start_time
\* wrapper put in the queue tuple.
TotalTimeOrigin(t) == t.start_time

NoJob == [job_id |-> 0, data |-> NoData]

----------------------------------------------------------------------------
(* Collaborators and envelopes *)

\* A call of a failing collaborator may fail while the failure budget lasts.
CallOutcomes(op) ==
    IF op \in failing /\ fault_budget > 0 THEN {TRUE, FALSE} ELSE {TRUE}

\* An entry of job_trace / loop_calls: one call made about a job.
Call(op, jid, status, env, url, ok) ==
    [op |-> op, job_id |-> jid, job_status |-> status, response |-> env,
     url |-> url, ok |-> ok]

\* app_utils.log_job_status(job_id, {...}): the Status Recorder receives the
\* StatusEvent; ok tells whether it managed to persist it. It returns to the
\* caller either way (best-effort sink).
log_job_status(trace, jid, status, env, ok) ==
    [trace EXCEPT ![jid] = Append(@, Call("log_job_status", jid, status, env, None, ok))]

\* services.webhook.send_webhook(url, envelope): one POST; ok tells whether the
\* delivery succeeded. A failure is swallowed inside the Notifier.
send_webhook(trace, jid, url, env, ok) ==
    [trace EXCEPT ![jid] = Append(@, Call("send_webhook", jid, "done", env, url, ok))]

\* The work closure f / task_func was invoked for the job.
invoke(trace, jid, outcome) ==
    [trace EXCEPT ![jid] =
        Append(@, Call("f", jid, IF outcome = Raised THEN "raised" ELSE "returned",
                       NoEnvelope, None, TRUE))]

\* app.py:116-129, response_obj of the inline path.
response_obj(resp, jid, t) ==
    [code |-> resp[3],
     job_id |-> jid,
     response |-> IF resp[3] = 200 THEN resp[1] ELSE None,
     message |-> IF resp[3] = 200 THEN "success" ELSE resp[1],
     run_time |-> Round3(t.run_time),
     queue_time |-> 0,
     total_time |-> Round3(t.run_time),
     queue_length |-> 0]

\* response_data that passes the body through whatever the code.
response_dataKeepsBody(resp, jid, t) ==
    [code |-> resp[3],
     job_id |-> jid,
     response |-> resp[1],
     message |-> IF resp[3] = 200 THEN "success" ELSE resp[1],
     run_time |-> Round3(t.run_time),
     queue_time |-> Round3(t.queue_time),
     total_time |-> Round3(t.total_time),
     queue_length |-> 0]

\* app.py:59-73, response_data of the Execution Loop.
response_data(resp, jid, t) ==
    [code |-> resp[3],
     job_id |-> jid,
     response |-> IF resp[3] = 200 THEN resp[1] ELSE None,
     message |-> IF resp[3] = 200 THEN "success" ELSE resp[1],
     run_time |-> Round3(t.run_time),
     queue_time |-> Round3(t.queue_time),
     total_time |-> Round3(t.total_time),
     queue_length |-> 0]

\* app.py:143-152, the rejection envelope.
error_response(jid, qlen) ==
    [code |-> 429,
     job_id |-> jid,
     response |-> None,
     message |-> "MAX_QUEUE_LENGTH (" \o ToString(MAX_QUEUE_LENGTH) \o ") reached",
     queue_length |-> qlen]

\* app.py:176-186, the acknowledgement envelope.
ack_response(jid, qlen) ==
    [code |-> 202,
     job_id |-> jid,
     response |-> None,
     message |-> "processing",
     queue_length |-> qlen]

\* What wrapper handed back to the caller: the envelope and the HTTP status.
Returned(env, http) == [envelope |-> env, http |-> http]

NotReturned == Returned(NoEnvelope, 0)

\* An exception escaping wrapper: no envelope, the framework answers 500.
Fault == Returned(NoEnvelope, 500)

\* A qsize() that misses the newest entry of the queue.
qsizeMissesNewest == IF task_queue = <<>> THEN 0 ELSE Len(task_queue) - 1

\* task_queue.qsize()
qsize == Len(task_queue)

----------------------------------------------------------------------------
(* State after create_app() *)

\* create_app() has run; the callers will send `jobs` requests to endpoints
\* whose closures return one of `menu`, and the collaborators will fail at
\* most `budget` times.
Start(jobs, pool, kinds, menu, faulty, budget, ticks) ==
    /\ MAX_QUEUE_LENGTH \in MaxQueueLengthValues
    /\ task_queue = <<>>
    /\ next_id = 1
    /\ pc = [j \in JobIds |-> "new"]
    /\ data = [j \in JobIds |-> NoData]
    /\ bypass_queue = [j \in JobIds |-> FALSE]
    /\ response = [j \in JobIds |-> NotCalled]
    /\ seen_qsize = [j \in JobIds |-> 0]
    /\ worker_pc = [w \in LoopThreads |-> "get"]
    /\ worker_job = [w \in LoopThreads |-> NoJob]
    /\ job_trace = [j \in JobIds |-> <<>>]
    /\ loop_calls = <<>>
    /\ pushed = <<>>
    /\ returned = [j \in JobIds |-> NotReturned]
    /\ now = 0
    /\ times = [j \in JobIds |-> NoTimes]
    /\ clock_limit = ticks
    /\ request_kinds = kinds
    /\ closure_results = menu
    /\ admissions_left = jobs
    /\ handlers \in pool
    /\ failing = faulty
    /\ fault_budget = budget

\* Collaborators that never fail; closures that return or raise.
Init == Start(MaxJobs, {NumHandlers}, Requests, Results \cup {Raised}, {}, 0, 0)

\* A Status Recorder that may fail; closures that return.
InitFaulty ==
    Start(MaxFaultyJobs, {NumHandlers}, TwoRequests, Success,
          {"log_job_status"}, MaxFaults, 0)

\* A Notifier that may fail; closures that return.
InitUndelivered ==
    Start(MaxFaultyJobs, {NumHandlers}, TwoRequests, Success,
          {"send_webhook"}, MaxFaults, 0)

\* Closures with the wide choice of results.
InitWide == Start(MaxWideJobs, {NumHandlers}, TwoRequests, WideResults, {}, 0, 0)

\* A burst of requests at a server with one handler thread or several.
InitBurst ==
    Start(MaxBurstJobs, 1..NumHandlers, TwoRequests, Success, {}, 0, 0)

\* Closures that may raise, behind a server with one handler thread.
InitCrash == Start(MaxCrashJobs, {1}, TwoRequests, Success \cup {Raised}, {}, 0, 0)

\* Every request kind and closure outcome, behind a server with one handler
\* thread.
InitSerial == Start(MaxSerialJobs, {1}, Requests, Results \cup {Raised}, {}, 0, 0)

\* A clock that advances while the requests are served, one at a time.
InitTimed == Start(MaxTimedJobs, {1}, TwoRequests, Success, {}, 0, MaxClock)

----------------------------------------------------------------------------
(* The Admission Controller: queue_task(bypass_queue)(f) -> wrapper *)

\* The requests whose wrapper activation has not returned yet.
InWrapper == { j \in JobIds : pc[j] \notin {"new", "returned"} }

\* The capacity gate left out.
QueueNeverFull(len) == FALSE

\* The capacity gate with > for >=.
QueueFullOffByOne(len) == MAX_QUEUE_LENGTH > 0 /\ len > MAX_QUEUE_LENGTH

\* The capacity gate firing one job early.
QueueFullEarly(len) == MAX_QUEUE_LENGTH > 0 /\ len + 1 >= MAX_QUEUE_LENGTH

\* app.py:142, the capacity gate.
QueueFull(len) == MAX_QUEUE_LENGTH > 0 /\ len >= MAX_QUEUE_LENGTH

\* The path decision with "and" for "or".
TakesInlinePathBoth(bypass, d) == bypass /\ "webhook_url" \notin DOMAIN d

\* app.py:102, the path decision.
TakesInlinePath(bypass, d) == bypass \/ "webhook_url" \notin DOMAIN d

\* app.py:97-111 and 97-142: a request arrives; job_id, data and the path
\* decision, which touch nothing shared, then the path's first step: the
\* running StatusEvent inline, the capacity gate's read of the queue length
\* otherwise.
Admit(j) ==
    /\ pc[j] = "new"
    /\ j = next_id
    /\ Cardinality(InWrapper) < handlers
    /\ admissions_left > 0
    /\ admissions_left' = admissions_left - 1
    /\ next_id' = next_id + 1
    /\ \E t \in Later(now) :
        /\ now' = t
        /\ times' = [times EXCEPT ![j].start_time = t]
    /\ \E b \in BOOLEAN, d \in Payloads :
        /\ <<b, d>> \in request_kinds
        /\ data' = [data EXCEPT ![j] = d]
        /\ bypass_queue' = [bypass_queue EXCEPT ![j] = b]
        /\ IF TakesInlinePath(b, d)
           THEN /\ \E ok \in CallOutcomes("log_job_status") :
                    /\ job_trace' = log_job_status(job_trace, j, "running", NoEnvelope, ok)
                    /\ fault_budget' = fault_budget - (IF ok THEN 0 ELSE 1)
                /\ pc' = [pc EXCEPT ![j] = "inline_call"]
                /\ UNCHANGED seen_qsize
           ELSE /\ seen_qsize' = [seen_qsize EXCEPT ![j] = qsize]
                /\ pc' = [pc EXCEPT ![j] =
                            IF QueueFull(qsize) THEN "reject" ELSE "log_queued"]
                /\ UNCHANGED <<job_trace, fault_budget>>
    /\ UNCHANGED <<MAX_QUEUE_LENGTH, task_queue, response, worker_pc, worker_job,
                   loop_calls, pushed, returned, clock_limit, request_kinds,
                   closure_results, handlers, failing>>

\* An inline path that posts the result to the callback address as well.
InlineCallNotifies(j) ==
    /\ pc[j] = "inline_call"
    /\ \E r \in Outcomes :
        /\ job_trace' =
                IF r # Raised /\ DictGet(data[j], "webhook_url") \notin {None, ""}
                THEN send_webhook(invoke(job_trace, j, r), j,
                                  DictGet(data[j], "webhook_url"),
                                  response_obj(r, j, times[j]), TRUE)
                ELSE invoke(job_trace, j, r)
        /\ response' = [response EXCEPT ![j] = r]
        /\ pc' = [pc EXCEPT ![j] = IF r = Raised THEN "returned" ELSE "inline_done"]
        /\ returned' = IF r = Raised
                       THEN [returned EXCEPT ![j] = Fault]
                       ELSE returned
        /\ IF r = Raised
           THEN UNCHANGED <<now, times>>
           ELSE \E t \in Later(now) :
                    /\ now' = t
                    /\ times' = [times EXCEPT
                                    ![j].run_time = Elapsed(t, times[j].start_time)]
    /\ UNCHANGED <<MAX_QUEUE_LENGTH, task_queue, next_id, data, bypass_queue,
                   seen_qsize, worker_pc, worker_job, loop_calls, pushed,
                   clock_limit, request_kinds, closure_results, admissions_left,
                   handlers, failing, fault_budget>>

\* app.py:113: f runs in the request handler; an exception leaves wrapper.
InlineCall(j) ==
    /\ pc[j] = "inline_call"
    /\ \E r \in Outcomes :
        /\ job_trace' = invoke(job_trace, j, r)
        /\ response' = [response EXCEPT ![j] = r]
        /\ pc' = [pc EXCEPT ![j] = IF r = Raised THEN "returned" ELSE "inline_done"]
        /\ returned' = IF r = Raised
                       THEN [returned EXCEPT ![j] = Fault]
                       ELSE returned
        /\ IF r = Raised
           THEN UNCHANGED <<now, times>>
           ELSE \E t \in Later(now) :
                    /\ now' = t
                    /\ times' = [times EXCEPT
                                    ![j].run_time = Elapsed(t, times[j].start_time)]
    /\ UNCHANGED <<MAX_QUEUE_LENGTH, task_queue, next_id, data, bypass_queue,
                   seen_qsize, worker_pc, worker_job, loop_calls, pushed,
                   clock_limit, request_kinds, closure_results, admissions_left,
                   handlers, failing, fault_budget>>

\* The inline return without the done StatusEvent.
InlineReturnsUnlogged(j) ==
    /\ pc[j] = "inline_done"
    /\ returned' = [returned EXCEPT ![j] =
                        Returned(response_obj(response[j], j, times[j]), response[j][3])]
    /\ pc' = [pc EXCEPT ![j] = "returned"]
    /\ UNCHANGED <<MAX_QUEUE_LENGTH, task_queue, next_id, data, bypass_queue,
                   response, seen_qsize, worker_pc, worker_job, job_trace,
                   loop_calls, pushed, now, times, clock_limit, request_kinds,
                   closure_results, admissions_left, handlers, failing,
                   fault_budget>>

\* app.py:116-140: build response_obj, done StatusEvent, return.
InlineLogDone(j) ==
    /\ pc[j] = "inline_done"
    /\ LET env == response_obj(response[j], j, times[j]) IN
        /\ \E ok \in CallOutcomes("log_job_status") :
            /\ job_trace' = log_job_status(job_trace, j, "done", env, ok)
            /\ fault_budget' = fault_budget - (IF ok THEN 0 ELSE 1)
        /\ returned' = [returned EXCEPT ![j] = Returned(env, response[j][3])]
    /\ pc' = [pc EXCEPT ![j] = "returned"]
    /\ UNCHANGED <<MAX_QUEUE_LENGTH, task_queue, next_id, data, bypass_queue,
                   response, seen_qsize, worker_pc, worker_job, loop_calls, pushed,
                   now, times, clock_limit, request_kinds, closure_results,
                   admissions_left, handlers, failing>>

\* The rejection without its return: the admission goes on to queue the job.
RejectFallsThrough(j) ==
    /\ pc[j] = "reject"
    /\ LET env == error_response(j, qsize) IN
        /\ \E ok \in CallOutcomes("log_job_status") :
            /\ job_trace' = log_job_status(job_trace, j, "done", env, ok)
            /\ fault_budget' = fault_budget - (IF ok THEN 0 ELSE 1)
    /\ pc' = [pc EXCEPT ![j] = "log_queued"]
    /\ UNCHANGED <<MAX_QUEUE_LENGTH, task_queue, next_id, data, bypass_queue,
                   response, seen_qsize, worker_pc, worker_job, loop_calls, pushed,
                   returned, now, times, clock_limit, request_kinds,
                   closure_results, admissions_left, handlers, failing>>

\* app.py:143-163: rejection envelope, done StatusEvent, return 429.
Reject(j) ==
    /\ pc[j] = "reject"
    /\ LET env == error_response(j, qsize) IN
        /\ \E ok \in CallOutcomes("log_job_status") :
            /\ job_trace' = log_job_status(job_trace, j, "done", env, ok)
            /\ fault_budget' = fault_budget - (IF ok THEN 0 ELSE 1)
        /\ returned' = [returned EXCEPT ![j] = Returned(env, 429)]
    /\ pc' = [pc EXCEPT ![j] = "returned"]
    /\ UNCHANGED <<MAX_QUEUE_LENGTH, task_queue, next_id, data, bypass_queue,
                   response, seen_qsize, worker_pc, worker_job, loop_calls, pushed,
                   now, times, clock_limit, request_kinds, closure_results,
                   admissions_left, handlers, failing>>

\* app.py:166-172: queued StatusEvent.
LogQueued(j) ==
    /\ pc[j] = "log_queued"
    /\ \E ok \in CallOutcomes("log_job_status") :
        /\ job_trace' = log_job_status(job_trace, j, "queued", NoEnvelope, ok)
        /\ fault_budget' = fault_budget - (IF ok THEN 0 ELSE 1)
    /\ pc' = [pc EXCEPT ![j] = "put"]
    /\ UNCHANGED <<MAX_QUEUE_LENGTH, task_queue, next_id, data, bypass_queue,
                   response, seen_qsize, worker_pc, worker_job, loop_calls, pushed,
                   returned, now, times, clock_limit, request_kinds,
                   closure_results, admissions_left, handlers, failing>>

\* put() on a LIFO queue: the new job goes to the head.
PutFront(j) ==
    /\ pc[j] = "put"
    /\ task_queue' = <<[job_id |-> j, data |-> data[j]]>> \o task_queue
    /\ pushed' = Append(pushed, j)
    /\ pc' = [pc EXCEPT ![j] = "ack"]
    /\ UNCHANGED <<MAX_QUEUE_LENGTH, next_id, data, bypass_queue, response,
                   seen_qsize, worker_pc, worker_job, job_trace, loop_calls,
                   returned, now, times, clock_limit, request_kinds,
                   closure_results, admissions_left, handlers, failing,
                   fault_budget>>

\* app.py:174: task_queue.put((job_id, data, lambda, start_time)).
Put(j) ==
    /\ pc[j] = "put"
    /\ task_queue' = Append(task_queue, [job_id |-> j, data |-> data[j]])
    /\ pushed' = Append(pushed, j)
    /\ pc' = [pc EXCEPT ![j] = "ack"]
    /\ UNCHANGED <<MAX_QUEUE_LENGTH, next_id, data, bypass_queue, response,
                   seen_qsize, worker_pc, worker_job, job_trace, loop_calls,
                   returned, now, times, clock_limit, request_kinds,
                   closure_results, admissions_left, handlers, failing,
                   fault_budget>>

\* The queued StatusEvent emitted once more after the put.
AcknowledgeLogsQueued(j) ==
    /\ pc[j] = "ack"
    /\ job_trace' = log_job_status(job_trace, j, "queued", NoEnvelope, TRUE)
    /\ returned' = [returned EXCEPT ![j] = Returned(ack_response(j, qsize), 202)]
    /\ pc' = [pc EXCEPT ![j] = "returned"]
    /\ UNCHANGED <<MAX_QUEUE_LENGTH, task_queue, next_id, data, bypass_queue,
                   response, seen_qsize, worker_pc, worker_job, loop_calls, pushed,
                   now, times, clock_limit, request_kinds, closure_results,
                   admissions_left, handlers, failing, fault_budget>>

\* app.py:176-186: the acknowledgement, with the queue length read now.
Acknowledge(j) ==
    /\ pc[j] = "ack"
    /\ returned' = [returned EXCEPT ![j] = Returned(ack_response(j, qsize), 202)]
    /\ pc' = [pc EXCEPT ![j] = "returned"]
    /\ UNCHANGED <<MAX_QUEUE_LENGTH, task_queue, next_id, data, bypass_queue,
                   response, seen_qsize, worker_pc, worker_job, job_trace,
                   loop_calls, pushed, now, times, clock_limit, request_kinds,
                   closure_results, admissions_left, handlers, failing,
                   fault_budget>>

wrapper(j) ==
    \/ Admit(j)
    \/ InlineCall(j)
    \/ InlineLogDone(j)
    \/ Reject(j)
    \/ LogQueued(j)
    \/ Put(j)
    \/ Acknowledge(j)

----------------------------------------------------------------------------
(* The Execution Loop: process_queue *)

\* Queue.get(): the head of the queue.
QueueHead(q) == Head(q)

\* Queue.get(): what is left of the queue.
QueueRest(q) == Tail(q)

\* The pop without the running StatusEvent.
GetSilent(w) ==
    /\ worker_pc[w] = "get"
    /\ task_queue # <<>>
    /\ worker_job' = [worker_job EXCEPT ![w] = QueueHead(task_queue)]
    /\ task_queue' = QueueRest(task_queue)
    /\ LET jid == QueueHead(task_queue).job_id IN
        \E t \in Later(now) : \E u \in Later(t) :
            /\ now' = u
            /\ times' = [times EXCEPT
                            ![jid].queue_time = Elapsed(t, times[jid].start_time),
                            ![jid].run_start_time = u]
    /\ worker_pc' = [worker_pc EXCEPT ![w] = "call"]
    /\ UNCHANGED <<MAX_QUEUE_LENGTH, next_id, pc, data, bypass_queue, response,
                   seen_qsize, job_trace, loop_calls, pushed, returned, clock_limit,
                   request_kinds, closure_results, admissions_left, handlers,
                   failing, fault_budget>>

\* app.py:41-53: block until a job is available, pop it, running StatusEvent.
Get(w) ==
    /\ worker_pc[w] = "get"
    /\ task_queue # <<>>
    /\ worker_job' = [worker_job EXCEPT ![w] = QueueHead(task_queue)]
    /\ task_queue' = QueueRest(task_queue)
    /\ LET jid == QueueHead(task_queue).job_id IN
        \E t \in Later(now) : \E u \in Later(t) :
            /\ now' = u
            /\ times' = [times EXCEPT
                            ![jid].queue_time = Elapsed(t, times[jid].start_time),
                            ![jid].run_start_time = u]
    /\ LET jid == QueueHead(task_queue).job_id IN
        \E ok \in CallOutcomes("log_job_status") :
            /\ job_trace' = log_job_status(job_trace, jid, "running", NoEnvelope, ok)
            /\ loop_calls' = Append(loop_calls,
                    Call("log_job_status", jid, "running", NoEnvelope, None, ok))
            /\ fault_budget' = fault_budget - (IF ok THEN 0 ELSE 1)
    /\ worker_pc' = [worker_pc EXCEPT ![w] = "call"]
    /\ UNCHANGED <<MAX_QUEUE_LENGTH, next_id, pc, data, bypass_queue, response,
                   seen_qsize, pushed, returned, clock_limit, request_kinds,
                   closure_results, admissions_left, handlers, failing>>

\* The loop catching what task_func() raises and going on to the next job.
CallTaskSurvives(w) ==
    /\ worker_pc[w] = "call"
    /\ LET jid == worker_job[w].job_id IN
        \E r \in Outcomes :
            /\ job_trace' = invoke(job_trace, jid, r)
            /\ loop_calls' = Append(loop_calls,
                    Call("f", jid, IF r = Raised THEN "raised" ELSE "returned",
                         NoEnvelope, None, TRUE))
            /\ response' = [response EXCEPT ![jid] = r]
            /\ worker_pc' = [worker_pc EXCEPT ![w] =
                                IF r = Raised THEN "get" ELSE "log_done"]
            /\ worker_job' = [worker_job EXCEPT ![w] = IF r = Raised THEN NoJob ELSE @]
            /\ IF r = Raised
               THEN UNCHANGED <<now, times>>
               ELSE \E t \in Later(now) : \E u \in Later(t) :
                        /\ now' = u
                        /\ times' = [times EXCEPT
                                ![jid].run_time = Elapsed(t, times[jid].run_start_time),
                                ![jid].total_time =
                                    Elapsed(u, TotalTimeOrigin(times[jid]))]
    /\ UNCHANGED <<MAX_QUEUE_LENGTH, task_queue, next_id, pc, data, bypass_queue,
                   seen_qsize, pushed, returned, clock_limit, request_kinds,
                   closure_results, admissions_left, handlers, failing,
                   fault_budget>>

\* app.py:55: response = task_func(); nothing catches an exception, so the
\* thread ends with it.
CallTask(w) ==
    /\ worker_pc[w] = "call"
    /\ LET jid == worker_job[w].job_id IN
        \E r \in Outcomes :
            /\ job_trace' = invoke(job_trace, jid, r)
            /\ loop_calls' = Append(loop_calls,
                    Call("f", jid, IF r = Raised THEN "raised" ELSE "returned",
                         NoEnvelope, None, TRUE))
            /\ response' = [response EXCEPT ![jid] = r]
            /\ worker_pc' = [worker_pc EXCEPT ![w] =
                                IF r = Raised THEN "dead" ELSE "log_done"]
            /\ IF r = Raised
               THEN UNCHANGED <<now, times>>
               ELSE \E t \in Later(now) : \E u \in Later(t) :
                        /\ now' = u
                        /\ times' = [times EXCEPT
                                ![jid].run_time = Elapsed(t, times[jid].run_start_time),
                                ![jid].total_time =
                                    Elapsed(u, TotalTimeOrigin(times[jid]))]
    /\ UNCHANGED <<MAX_QUEUE_LENGTH, task_queue, next_id, pc, data, bypass_queue,
                   seen_qsize, worker_job, pushed, returned, clock_limit,
                   request_kinds, closure_results, admissions_left, handlers,
                   failing, fault_budget>>

\* The loop with a Status Recorder failure escaping as an exception.
LogDoneAborts(w) ==
    /\ worker_pc[w] = "log_done"
    /\ LET jid == worker_job[w].job_id
           env == response_data(response[jid], jid, times[jid]) IN
        \E ok \in CallOutcomes("log_job_status") :
            /\ job_trace' = log_job_status(job_trace, jid, "done", env, ok)
            /\ loop_calls' = Append(loop_calls,
                    Call("log_job_status", jid, "done", env, None, ok))
            /\ fault_budget' = fault_budget - (IF ok THEN 0 ELSE 1)
            /\ worker_pc' = [worker_pc EXCEPT ![w] = IF ok THEN "webhook" ELSE "dead"]
    /\ UNCHANGED <<MAX_QUEUE_LENGTH, task_queue, next_id, pc, data, bypass_queue,
                   response, seen_qsize, worker_job, pushed, returned, now, times,
                   clock_limit, request_kinds, closure_results, admissions_left,
                   handlers, failing>>

\* app.py:56-82: build response_data, done StatusEvent.
LogDone(w) ==
    /\ worker_pc[w] = "log_done"
    /\ LET jid == worker_job[w].job_id
           env == response_data(response[jid], jid, times[jid]) IN
        \E ok \in CallOutcomes("log_job_status") :
            /\ job_trace' = log_job_status(job_trace, jid, "done", env, ok)
            /\ loop_calls' = Append(loop_calls,
                    Call("log_job_status", jid, "done", env, None, ok))
            /\ fault_budget' = fault_budget - (IF ok THEN 0 ELSE 1)
    /\ worker_pc' = [worker_pc EXCEPT ![w] = "webhook"]
    /\ UNCHANGED <<MAX_QUEUE_LENGTH, task_queue, next_id, pc, data, bypass_queue,
                   response, seen_qsize, worker_job, pushed, returned, now, times,
                   clock_limit, request_kinds, closure_results, admissions_left,
                   handlers, failing>>

\* The callback test with == for !=.
HasWebhookTypo(d) == Truthy(DictGet(d, "webhook_url")) /\ DictGet(d, "webhook_url") = ""

\* The callback test asking only whether the key is there.
HasWebhookKeyOnly(d) == DictGet(d, "webhook_url") # None

\* app.py:85: data.get("webhook_url") and data.get("webhook_url") != "".
HasWebhook(d) == Truthy(DictGet(d, "webhook_url")) /\ DictGet(d, "webhook_url") # ""

\* The loop body run once, without the while.
NoNextRound == "exited"

\* app.py:40: while True, back to the blocking get.
NextRound == "get"

\* The loop with a Notifier failure escaping as an exception.
WebhookPropagates(w) ==
    /\ worker_pc[w] = "webhook"
    /\ LET jid == worker_job[w].job_id
           d == worker_job[w].data
           env == response_data(response[jid], jid, times[jid])
           done == Call("task_done", jid, "done", NoEnvelope, None, TRUE) IN
        IF HasWebhook(d)
        THEN \E ok \in CallOutcomes("send_webhook") :
                /\ job_trace' = send_webhook(job_trace, jid, DictGet(d, "webhook_url"),
                                             env, ok)
                /\ loop_calls' = loop_calls \o
                        << Call("send_webhook", jid, "done", env,
                                DictGet(d, "webhook_url"), ok) >> \o
                        (IF ok THEN <<done>> ELSE <<>>)
                /\ worker_job' = [worker_job EXCEPT ![w] = IF ok THEN NoJob ELSE @]
                /\ worker_pc' = [worker_pc EXCEPT ![w] = IF ok THEN NextRound ELSE "dead"]
                /\ fault_budget' = fault_budget - (IF ok THEN 0 ELSE 1)
        ELSE /\ loop_calls' = Append(loop_calls, done)
             /\ worker_job' = [worker_job EXCEPT ![w] = NoJob]
             /\ worker_pc' = [worker_pc EXCEPT ![w] = NextRound]
             /\ UNCHANGED <<job_trace, fault_budget>>
    /\ UNCHANGED <<MAX_QUEUE_LENGTH, task_queue, next_id, pc, data, bypass_queue,
                   response, seen_qsize, pushed, returned, now, times, clock_limit,
                   request_kinds, closure_results, admissions_left, handlers,
                   failing>>

\* app.py:84-88: the Notifier, only for a non-empty callback address; it is
\* handed response_data, the envelope built at app.py:59. Then
\* task_queue.task_done() and the next round of while True.
Webhook(w) ==
    /\ worker_pc[w] = "webhook"
    /\ LET jid == worker_job[w].job_id
           d == worker_job[w].data
           env == response_data(response[jid], jid, times[jid])
           done == Call("task_done", jid, "done", NoEnvelope, None, TRUE) IN
        IF HasWebhook(d)
        THEN \E ok \in CallOutcomes("send_webhook") :
                /\ job_trace' = send_webhook(job_trace, jid, DictGet(d, "webhook_url"),
                                             env, ok)
                /\ loop_calls' = loop_calls \o
                        << Call("send_webhook", jid, "done", env,
                                DictGet(d, "webhook_url"), ok), done >>
                /\ fault_budget' = fault_budget - (IF ok THEN 0 ELSE 1)
        ELSE /\ loop_calls' = Append(loop_calls, done)
             /\ UNCHANGED <<job_trace, fault_budget>>
    /\ worker_job' = [worker_job EXCEPT ![w] = NoJob]
    /\ worker_pc' = [worker_pc EXCEPT ![w] = NextRound]
    /\ UNCHANGED <<MAX_QUEUE_LENGTH, task_queue, next_id, pc, data, bypass_queue,
                   response, seen_qsize, pushed, returned, now, times, clock_limit,
                   request_kinds, closure_results, admissions_left, handlers,
                   failing>>

process_queue(w) ==
    \/ Get(w)
    \/ CallTask(w)
    \/ LogDone(w)
    \/ Webhook(w)

----------------------------------------------------------------------------
(* Specifications *)

Next ==
    \/ \E j \in JobIds : wrapper(j)
    \/ \E w \in LoopThreads : process_queue(w)

Spec == Init /\ [][Next]_vars

FaultySpec == InitFaulty /\ [][Next]_vars

WideSpec == InitWide /\ [][Next]_vars

BurstSpec == InitBurst /\ [][Next]_vars

TimedSpec == InitTimed /\ [][Next]_vars

CrashSpec == InitCrash /\ [][Next]_vars

SerialSpec == InitSerial /\ [][Next]_vars

\* The loop thread is a live daemon thread: the scheduler keeps running it.
FairSpec ==
    /\ InitUndelivered /\ [][Next]_vars
    /\ \A w \in LoopThreads : WF_vars(process_queue(w))

----------------------------------------------------------------------------
(* Vocabulary of the properties *)

\* The request of job j has arrived.
Arrived(j) == pc[j] # "new"

\* The payload of job j carries the callback key / a non-empty address.
HasCallbackKey(j) == "webhook_url" \in DOMAIN data[j]
HasCallbackAddress(j) == HasCallbackKey(j) /\ data[j]["webhook_url"] # ""

\* Job j belongs on the deferred path / the inline path.
Deferred(j) == Arrived(j) /\ HasCallbackKey(j) /\ ~bypass_queue[j]
Inline(j) == Arrived(j) /\ (~HasCallbackKey(j) \/ bypass_queue[j])

\* Job j is waiting in the queue.
InQueue(j) == \E i \in DOMAIN task_queue : task_queue[i].job_id = j

\* How often job j was put on the queue.
TimesPushed(j) == Cardinality({ i \in DOMAIN pushed : pushed[i] = j })

\* The queue length the capacity gate read for job j was below the maximum.
SawRoom(j) == MAX_QUEUE_LENGTH = 0 \/ seen_qsize[j] < MAX_QUEUE_LENGTH
SawFull(j) == MAX_QUEUE_LENGTH > 0 /\ seen_qsize[j] >= MAX_QUEUE_LENGTH

\* The calls of one kind made about job j, in order.
CallsOf(j, op) == SelectSeq(job_trace[j], LAMBDA c : c.op = op)
EventsOf(j, status) ==
    SelectSeq(job_trace[j], LAMBDA c : c.op = "log_job_status" /\ c.job_status = status)

\* The lifecycle states the StatusEvents of job j carried, in order.
StatusesOf(j) ==
    LET events == CallsOf(j, "log_job_status")
    IN [i \in DOMAIN events |-> events[i].job_status]

\* What was called about job j, in order: the lifecycle state for a
\* StatusEvent, the callee otherwise.
StepsOf(j) ==
    [i \in DOMAIN job_trace[j] |->
        IF job_trace[j][i].op = "log_job_status"
        THEN job_trace[j][i].job_status
        ELSE job_trace[j][i].op]

\* The StatusEvents about job j that the loop emitted.
LoopEventsOf(j) ==
    SelectSeq(loop_calls, LAMBDA c : c.op = "log_job_status" /\ c.job_id = j)

\* The place of a lifecycle state in queued -> running -> done.
Rank(status) == CASE status = "queued" -> 1 [] status = "running" -> 2 [] OTHER -> 3

\* Sequence s is the beginning of sequence t.
IsPrefix(s, t) == Len(s) <= Len(t) /\ s = SubSeq(t, 1, Len(s))

\* The done StatusEvents of the loop, as job_ids in emission order.
IsLoopDone(c) == c.op = "log_job_status" /\ c.job_status = "done"
LoopDoneOrder ==
    LET done == SelectSeq(loop_calls, IsLoopDone)
    IN [i \in DOMAIN done |-> done[i].job_id]

\* The loop has called task_done() for job j.
LoopCompleted(j) ==
    \E i \in DOMAIN loop_calls :
        loop_calls[i].op = "task_done" /\ loop_calls[i].job_id = j

\* The loop thread w holds job j, popped and not yet completed.
LoopHolds(w, j) == worker_job[w].job_id = j

\* A closure raised in the loop.
IsRaisedCall(c) == c.op = "f" /\ c.job_status = "raised"
LoopRaised == \E i \in DOMAIN loop_calls : IsRaisedCall(loop_calls[i])

\* The Notifier failed for some job.
IsFailedPost(c) == c.op = "send_webhook" /\ ~c.ok
IsFailedEvent(c) == c.op = "log_job_status" /\ ~c.ok

----------------------------------------------------------------------------
(* C1 *)

\* C1 as stated: whenever an admission returned 202, the queue length right
\* after its return is the length its capacity gate saw plus exactly 1.
C1_LengthAtReturnIsSeenPlusOne ==
    \A j \in JobIds :
        returned[j].http = 202 =>
            returned[j].envelope.queue_length = seen_qsize[j] + 1

\* C1, amended: a deferred admission whose capacity gate saw room returns 202,
\* and its own push appends exactly its job, lengthening the queue by exactly
\* 1; the job is pushed once and no other step of the admission touches the
\* queue. (The length at return is not fixed: the loop may pop and other
\* admissions may push in between.)
C1_AdmissionPushesExactlyOne ==
    /\ [](\A j \in JobIds :
            (Deferred(j) /\ SawRoom(j)) =>
                /\ pc[j] \in {"log_queued", "put", "ack", "returned"}
                /\ TimesPushed(j) = (IF pc[j] \in {"ack", "returned"} THEN 1 ELSE 0)
                /\ pc[j] = "returned" =>
                        returned[j].http = 202 /\ returned[j].envelope.code = 202)
    /\ [][\A j \in JobIds :
            (Deferred(j) /\ SawRoom(j) /\ pc'[j] # pc[j]) =>
                IF pc[j] = "put"
                THEN /\ Len(task_queue') = Len(task_queue) + 1
                     /\ task_queue' = Append(task_queue, [job_id |-> j, data |-> data[j]])
                ELSE task_queue' = task_queue]_vars

\* A bounded queue with room: the admission returned 202 and reports the
\* length it saw plus one.
C1_Witness ==
    \E j \in JobIds :
        /\ Deferred(j) /\ MAX_QUEUE_LENGTH > 0 /\ SawRoom(j)
        /\ pc[j] = "returned" /\ returned[j].http = 202
        /\ returned[j].envelope.queue_length = seen_qsize[j] + 1

----------------------------------------------------------------------------
(* C2 *)

\* C2: a deferred admission whose capacity gate saw the queue at or over a
\* maximum > 0 never puts its job on the queue, its steps leave the queue as
\* it is, and it returns 429.
C2_FullQueueRejects ==
    /\ [](\A j \in JobIds :
            (Deferred(j) /\ SawFull(j)) =>
                /\ pc[j] \in {"reject", "returned"}
                /\ TimesPushed(j) = 0 /\ ~InQueue(j)
                /\ pc[j] = "returned" =>
                        returned[j].http = 429 /\ returned[j].envelope.code = 429)
    /\ [][\A j \in JobIds :
            (Deferred(j) /\ SawFull(j) /\ pc'[j] # pc[j]) =>
                task_queue' = task_queue]_vars

\* Scenario A: max 1, the first job still in the queue, the second got 429.
C2_Witness ==
    /\ MAX_QUEUE_LENGTH = 1
    /\ \E j, k \in JobIds :
        /\ j < k /\ InQueue(j)
        /\ Deferred(k) /\ pc[k] = "returned" /\ returned[k].http = 429

----------------------------------------------------------------------------
(* C3 *)

\* C3: a job without the callback key, or on a bypass_queue endpoint, is
\* never put on the queue, gets no queued StatusEvent, and no step of its
\* admission changes the queue.
C3_InlineNeverEnqueues ==
    /\ [](\A j \in JobIds :
            Inline(j) =>
                /\ TimesPushed(j) = 0 /\ ~InQueue(j)
                /\ EventsOf(j, "queued") = <<>>
                /\ pc[j] \in {"inline_call", "inline_done", "returned"})
    /\ [][\A j \in JobIds :
            (Inline(j)' /\ pc'[j] # pc[j]) => task_queue' = task_queue]_vars

\* A bypass_queue endpoint got a payload with a callback address and
\* returned its result inline, while another job was waiting in the queue.
C3_Witness ==
    \E j \in JobIds :
        /\ bypass_queue[j] /\ HasCallbackAddress(j)
        /\ pc[j] = "returned" /\ returned[j].http = 200
        /\ task_queue # <<>>

----------------------------------------------------------------------------
(* C4 *)

\* C4: the done StatusEvents of the loop come in push order: at every moment
\* the jobs the loop has reported done are the first jobs pushed, in order.
C4_DoneInPushOrder ==
    /\ Len(LoopDoneOrder) <= Len(pushed)
    /\ LoopDoneOrder = SubSeq(pushed, 1, Len(LoopDoneOrder))

\* Two jobs were pushed in the reverse of their arrival order, and the loop
\* has reported both done.
C4_Witness ==
    /\ Len(LoopDoneOrder) >= 2
    /\ pushed[1] > pushed[2]

----------------------------------------------------------------------------
(* C5 *)

\* The envelopes the done StatusEvents of job j carry and the Notifier was
\* handed for it.
TraceEnvelopesOf(j) ==
    { job_trace[j][i].response : i \in DOMAIN job_trace[j] } \ {NoEnvelope}

\* The envelopes the engine has produced for job j: those and what wrapper
\* returned.
EnvelopesOf(j) == TraceEnvelopesOf(j) \cup ({returned[j].envelope} \ {NoEnvelope})

\* The envelopes of job j built from its closure's result: all of them for an
\* inline job, the loop's for a job that was pushed.
ResultEnvelopesOf(j) ==
    IF Inline(j) THEN EnvelopesOf(j)
    ELSE IF TimesPushed(j) = 1 THEN TraceEnvelopesOf(j)
    ELSE {}

\* C5 as stated: in every envelope code = 200 exactly when response is
\* non-null, and an envelope with another code has a null response and the
\* closure's body as its message.
C5_EnvelopeInvariantAsStated ==
    \A j \in JobIds : \A e \in EnvelopesOf(j) :
        /\ e.code = 200 <=> e.response # None
        /\ e.code # 200 => e.response = None /\ e.message = response[j][1]

\* C5, amended: an envelope built from a closure's result (inline result,
\* deferred result) has the closure's status code, the closure's body as
\* response when the code is 200 and null otherwise, and "success" as
\* message when the code is 200 and the closure's body otherwise; the 202
\* acknowledgement and the 429 rejection have a null response and their own
\* message ("processing", the text naming the limit).
C5_EnvelopeFollowsResult ==
    \A j \in JobIds :
        /\ \A e \in ResultEnvelopesOf(j) :
            /\ e.code = response[j][3]
            /\ e.job_id = j
            /\ e.response = (IF e.code = 200 THEN response[j][1] ELSE None)
            /\ e.message = (IF e.code = 200 THEN "success" ELSE response[j][1])
        /\ (Deferred(j) /\ pc[j] = "returned") =>
            LET e == returned[j].envelope IN
            /\ e.job_id = j
            /\ e.response = None
            /\ IF TimesPushed(j) = 1
               THEN e.code = 202 /\ e.message = "processing"
               ELSE /\ e.code = 429
                    /\ e.message = "MAX_QUEUE_LENGTH (1) reached"
                    /\ MAX_QUEUE_LENGTH = 1
        /\ (Deferred(j) /\ TimesPushed(j) = 0) =>
            \A e \in EnvelopesOf(j) : e.code = 429 /\ e = returned[j].envelope

\* Scenario B inline, and a deferred job whose closure returned a non-200
\* code with a body: {code 500, response null, message "oops"} both times.
C5_Witness ==
    \E j, k \in JobIds :
        /\ Inline(j) /\ pc[j] = "returned"
        /\ returned[j].envelope.code = 500
        /\ returned[j].envelope.response = None
        /\ returned[j].envelope.message = "oops"
        /\ Deferred(k) /\ LoopCompleted(k)
        /\ \E e \in ResultEnvelopesOf(k) :
            e.code = 500 /\ e.response = None /\ e.message = "oops"

----------------------------------------------------------------------------
(* C6 *)

\* C6: for a deferred job with a non-empty callback address the Notifier is
\* called at most once, and exactly once by the time the loop has completed
\* the job: right after the done StatusEvent, with the job's address and the
\* envelope of that done event, whose code and response come from the
\* closure's result.
C6_NotifiedExactlyOnce ==
    \A j \in JobIds :
        (Deferred(j) /\ HasCallbackAddress(j)) =>
            LET posts == CallsOf(j, "send_webhook")
                done == EventsOf(j, "done")
            IN /\ Len(posts) <= 1
               /\ Len(posts) = 1 =>
                    /\ Len(done) = 1
                    /\ posts[1].url = data[j]["webhook_url"]
                    /\ posts[1].response = done[1].response
                    /\ posts[1].response.job_id = j
                    /\ posts[1].response.code = response[j][3]
                    /\ posts[1].response.response =
                            (IF response[j][3] = 200 THEN response[j][1] ELSE None)
               /\ (Len(done) = 1 /\ done[1].response.code # 429 /\ Len(posts) = 0) =>
                    \E w \in LoopThreads : LoopHolds(w, j) /\ worker_pc[w] = "webhook"
               /\ LoopCompleted(j) => Len(posts) = 1

\* Scenario C: the closure returned (body, "x", 200) and the Notifier got one
\* POST for the address with response = body and code = 200.
C6_Witness ==
    \E j \in JobIds :
        /\ Deferred(j) /\ data[j] = [webhook_url |-> HookUrl]
        /\ LoopCompleted(j)
        /\ Len(CallsOf(j, "send_webhook")) = 1
        /\ CallsOf(j, "send_webhook")[1].response.code = 200
        /\ CallsOf(j, "send_webhook")[1].response.response = "body"

----------------------------------------------------------------------------
(* C7 *)

\* C7: under a fairly scheduled loop and closures that return, every job in
\* the queue eventually gets its done StatusEvent; and no step takes a job out
\* of the queue other than the loop's get, nor out of the loop's hands before
\* its done StatusEvent.
C7_RunsToCompletion ==
    /\ \A j \in JobIds :
        InQueue(j) ~> (EventsOf(j, "done") # <<>>)
    /\ [][\A j \in JobIds :
            /\ InQueue(j) => (InQueue(j)' \/ \E w \in LoopThreads : LoopHolds(w, j)')
            /\ \A w \in LoopThreads :
                (LoopHolds(w, j) /\ EventsOf(j, "done") = <<>>) => LoopHolds(w, j)']_vars

\* A job waited in the queue behind another one and got its done StatusEvent.
C7_Witness ==
    /\ Len(pushed) >= 2
    /\ EventsOf(pushed[2], "done") # <<>>
    /\ \E i \in DOMAIN loop_calls :
        /\ loop_calls[i].op = "log_job_status" /\ loop_calls[i].job_status = "running"
        /\ loop_calls[i].job_id = pushed[2]
        /\ i > 1

----------------------------------------------------------------------------
(* C8 *)

\* C8: a failed Notifier call for a job is its only Notifier call and is
\* followed at once by the loop's task_done for that job; the loop thread
\* never ends; and every job waiting in the queue when a Notifier call has
\* failed still gets its closure invoked and its done StatusEvent emitted.
C8_NotifierFailureIsolated ==
    /\ [](\A i \in DOMAIN loop_calls :
            IsFailedPost(loop_calls[i]) =>
                /\ Len(CallsOf(loop_calls[i].job_id, "send_webhook")) = 1
                /\ i < Len(loop_calls)
                /\ loop_calls[i + 1].op = "task_done"
                /\ loop_calls[i + 1].job_id = loop_calls[i].job_id)
    /\ [](\A w \in LoopThreads :
            worker_pc[w] \in {"get", "call", "log_done", "webhook"})
    /\ \A k \in JobIds :
        ((\E i \in DOMAIN loop_calls : IsFailedPost(loop_calls[i])) /\ InQueue(k))
            ~> (CallsOf(k, "f") # <<>> /\ EventsOf(k, "done") # <<>>)

\* The Notifier failed for the first job and the job behind it was run and
\* reported done.
C8_Witness ==
    /\ Len(pushed) >= 2
    /\ \E i \in DOMAIN job_trace[pushed[1]] : IsFailedPost(job_trace[pushed[1]][i])
    /\ LoopCompleted(pushed[2])

----------------------------------------------------------------------------
(* C9 *)

----------------------------------------------------------------------------
(* C10 *)

\* C10: at most one loop thread holds a dequeued job, and when the loop emits
\* the running StatusEvent of a job, every call it made before (running,
\* closure, done, Notifier) belongs to a job it has already marked complete.
C10_StrictlySequential ==
    /\ Cardinality({ w \in LoopThreads : worker_job[w] # NoJob }) <= 1
    /\ \A i \in DOMAIN loop_calls :
        (loop_calls[i].op = "log_job_status" /\ loop_calls[i].job_status = "running") =>
            \A k \in 1..(i - 1) :
                \E m \in k..(i - 1) :
                    /\ loop_calls[m].op = "task_done"
                    /\ loop_calls[m].job_id = loop_calls[k].job_id

\* The loop called the Notifier for one job and later emitted the running
\* StatusEvent of a job pushed after it.
C10_Witness ==
    \E i, k \in DOMAIN loop_calls :
        /\ i < k
        /\ loop_calls[i].op = "send_webhook"
        /\ loop_calls[k].op = "log_job_status" /\ loop_calls[k].job_status = "running"
        /\ loop_calls[k].job_id # loop_calls[i].job_id
        /\ \E a, b \in DOMAIN pushed :
            /\ pushed[a] = loop_calls[i].job_id /\ pushed[b] = loop_calls[k].job_id
            /\ a < b

----------------------------------------------------------------------------
(* C11 *)

\* C11: with a maximum > 0 and N handler threads, hence at most N admissions
\* in flight at once, the queue never holds more than the maximum plus N - 1
\* jobs.
C11_OvershootBounded ==
    MAX_QUEUE_LENGTH > 0 => Len(task_queue) <= MAX_QUEUE_LENGTH + (handlers - 1)

\* Two admissions passed the capacity gate before either pushed: the queue
\* holds more than the maximum, exactly the maximum plus N - 1.
C11_Witness ==
    /\ MAX_QUEUE_LENGTH > 0 /\ handlers >= 2
    /\ Len(task_queue) > MAX_QUEUE_LENGTH
    /\ Len(task_queue) = MAX_QUEUE_LENGTH + (handlers - 1)
    /\ admissions_left > 0

----------------------------------------------------------------------------
(* C12 *)

\* C12: about a job whose admission saw the queue full, nothing is ever
\* called but the Status Recorder, once, with a done StatusEvent that carries
\* the rejection envelope (no queued or running event, no closure call, no
\* Notifier call); the admission returns that envelope with 429.
C12_RejectionEmitsOneDone ==
    \A j \in JobIds :
        (Deferred(j) /\ SawFull(j)) =>
            /\ Len(job_trace[j]) = (IF pc[j] = "returned" THEN 1 ELSE 0)
            /\ pc[j] = "returned" =>
                /\ job_trace[j][1].op = "log_job_status"
                /\ job_trace[j][1].job_status = "done"
                /\ job_trace[j][1].response = returned[j].envelope
                /\ returned[j].http = 429
                /\ returned[j].envelope.code = 429
                /\ returned[j].envelope.job_id = j
            /\ response[j] = NotCalled
            /\ \A i \in DOMAIN loop_calls : loop_calls[i].job_id # j

\* A job with a callback address was rejected, and the loop has since run
\* the job that filled the queue and is idle again.
C12_Witness ==
    \E j, k \in JobIds :
        /\ Deferred(j) /\ HasCallbackAddress(j) /\ SawFull(j)
        /\ pc[j] = "returned" /\ returned[j].http = 429
        /\ Len(EventsOf(j, "done")) = 1
        /\ k < j /\ LoopCompleted(k)
        /\ task_queue = <<>>
        /\ \A w \in LoopThreads : worker_pc[w] = "get"

----------------------------------------------------------------------------
(* C13 *)

\* C13 as stated: a deferred job never has more than two StatusEvents, and
\* they are a queued event and a done event.
C13_AtMostQueuedAndDone ==
    \A j \in JobIds :
        Deferred(j) =>
            /\ Len(StatusesOf(j)) <= 2
            /\ \A i \in DOMAIN StatusesOf(j) : StatusesOf(j)[i] \in {"queued", "done"}

\* C13, amended: a deferred job has exactly one StatusEvent if its admission
\* was rejected (done, emitted by the admission) and otherwise up to three:
\* queued, emitted by the admission, then running and done, both emitted by
\* the Execution Loop; exactly those three once the loop has completed it.
C13_QueuedRunningDone ==
    \A j \in JobIds :
        Deferred(j) =>
            /\ SawFull(j) =>
                /\ IsPrefix(StatusesOf(j), <<"done">>)
                /\ LoopEventsOf(j) = <<>>
                /\ pc[j] = "returned" => StatusesOf(j) = <<"done">>
            /\ SawRoom(j) =>
                /\ IsPrefix(StatusesOf(j), <<"queued", "running", "done">>)
                /\ Len(StatusesOf(j)) = Len(LoopEventsOf(j)) +
                        (IF pc[j] = "log_queued" THEN 0 ELSE 1)
                /\ pc[j] = "returned" => Len(StatusesOf(j)) >= 1
                /\ LoopCompleted(j) => StatusesOf(j) = <<"queued", "running", "done">>

\* The loop has completed a deferred job and the job has three StatusEvents.
C13_Witness ==
    \E j \in JobIds :
        /\ Deferred(j) /\ SawRoom(j) /\ LoopCompleted(j)
        /\ Len(StatusesOf(j)) = 3
        /\ Len(LoopEventsOf(j)) = 2

----------------------------------------------------------------------------
(* C14 *)

\* C14: what is called about an inline job is, in order, the running
\* StatusEvent, the work closure, the done StatusEvent: the first before the
\* closure runs, all three by the time the admission returns its envelope
\* (which the done event carries) and nothing more afterwards, never a
\* queued event, nothing by the loop.  A closure that breaks its contract and
\* raises ends the admission after the running event.
C14_InlineRunningThenDone ==
    \A j \in JobIds :
        Inline(j) =>
            /\ pc[j] = "inline_call" => StepsOf(j) = <<"running">>
            /\ pc[j] = "inline_done" =>
                    StepsOf(j) = <<"running", "f">> /\ response[j] # Raised
            /\ pc[j] = "returned" =>
                    IF response[j] = Raised
                    THEN StepsOf(j) = <<"running", "f">> /\ returned[j] = Fault
                    ELSE /\ StepsOf(j) = <<"running", "f", "done">>
                         /\ job_trace[j][3].response = returned[j].envelope
                         /\ returned[j].http = response[j][3]
            /\ \A i \in DOMAIN loop_calls : loop_calls[i].job_id # j

\* An inline job returned its closure's result: running, closure, done.
C14_Witness ==
    \E j \in JobIds :
        /\ Inline(j) /\ pc[j] = "returned" /\ returned[j].http = 200
        /\ StatusesOf(j) = <<"running", "done">>
        /\ Len(CallsOf(j, "f")) = 1

----------------------------------------------------------------------------
(* C15 *)

\* C15: in the order in which the StatusEvents of a deferred job were
\* emitted, every event carries a later lifecycle state than the one before
\* (so none comes twice or after a later one); the queued event is there
\* before the job is put on the queue, hence before anything the loop emits
\* for it; and a done event of the loop comes right after the job's running
\* event and closure call.
C15_LifecycleOrder ==
    \A j \in JobIds :
        Deferred(j) =>
            LET st == StatusesOf(j) IN
            /\ \A i \in DOMAIN st : i > 1 => Rank(st[i - 1]) < Rank(st[i])
            /\ (pc[j] = "put" \/ TimesPushed(j) > 0) =>
                    st # <<>> /\ st[1] = "queued"
            /\ pc[j] = "put" => TimesPushed(j) = 0 /\ st = <<"queued">>
            /\ LoopEventsOf(j) # <<>> =>
                    TimesPushed(j) = 1 /\ Len(st) >= 2 /\ st[2] = "running"
            /\ Len(LoopEventsOf(j)) = 2 =>
                    /\ Len(StepsOf(j)) >= 4
                    /\ SubSeq(StepsOf(j), 1, 4) = <<"queued", "running", "f", "done">>

\* A job that waited in the queue behind another one went through queued,
\* running and done.
C15_Witness ==
    \E j \in JobIds :
        /\ Deferred(j) /\ LoopCompleted(j)
        /\ Len(pushed) >= 2 /\ pushed[2] = j
        /\ StatusesOf(j) = <<"queued", "running", "done">>

----------------------------------------------------------------------------
(* C16 *)

\* The envelope of the done StatusEvent the loop emitted for job j.
LoopEnvelopeOf(j) == LoopEventsOf(j)[2].response

\* C16: on a clock that never goes back, once the loop has measured a
\* deferred job its queue_time and run_time are not negative, queue_time runs
\* from wrapper's start_time to the clock read after the pop, and total_time
\* is queue_time + run_time plus what the clock advanced between the loop's
\* two pairs of reads, so never less than their sum; the envelope carries
\* the three rounded to milliseconds, where the sum can be one ahead.  The
\* envelope of an inline job has queue_time 0 and total_time = run_time.
C16_TotalCoversQueueAndRun ==
    \A j \in JobIds :
        LET t == times[j] IN
        /\ (Deferred(j) /\ Len(LoopEventsOf(j)) = 2) =>
            /\ t.queue_time >= 0 /\ t.run_time >= 0
            /\ t.run_start_time - (t.start_time + t.queue_time) \in {0, 1}
            /\ t.total_time >= t.queue_time + t.run_time
            /\ t.total_time - (t.queue_time + t.run_time) =
                    (t.run_start_time - (t.start_time + t.queue_time)) +
                    ((t.start_time + t.total_time) - (t.run_start_time + t.run_time))
            /\ (t.start_time + t.total_time) - (t.run_start_time + t.run_time) \in {0, 1}
            /\ LoopEnvelopeOf(j).queue_time = Round3(t.queue_time)
            /\ LoopEnvelopeOf(j).run_time = Round3(t.run_time)
            /\ LoopEnvelopeOf(j).total_time = Round3(t.total_time)
            /\ LoopEnvelopeOf(j).total_time + 1 >=
                    LoopEnvelopeOf(j).queue_time + LoopEnvelopeOf(j).run_time
        /\ (Inline(j) /\ pc[j] = "returned" /\ returned[j] # Fault) =>
            /\ t.run_time >= 0
            /\ returned[j].envelope.queue_time = 0
            /\ returned[j].envelope.run_time = Round3(t.run_time)
            /\ returned[j].envelope.total_time = returned[j].envelope.run_time

\* A deferred job waited, ran, and the clock advanced between the loop's
\* reads, so its total_time is more than queue_time + run_time; an inline job
\* took time as well.
C16_Witness ==
    \E j, k \in JobIds :
        /\ Deferred(j) /\ LoopCompleted(j)
        /\ times[j].queue_time > 0 /\ times[j].run_time > 0
        /\ times[j].total_time > times[j].queue_time + times[j].run_time
        /\ Inline(k) /\ pc[k] = "returned" /\ times[k].run_time > 0
        /\ returned[k].envelope.queue_time = 0

----------------------------------------------------------------------------
(* C17 *)

\* C17: once a closure has raised in the loop, the loop thread stays ended:
\* the job it held has its queued and running StatusEvents but never a done
\* event, a Notifier call or task_done; the loop calls nothing more and pops
\* nothing more, so no job in the queue is ever run; and admissions go on:
\* a deferred one is queued and answered 202 while the queue is below a
\* maximum > 0 (or there is none), and sent to the 429 rejection once the
\* queue has reached the maximum, which it then never leaves.
C17_RaisedClosureEndsLoop ==
    /\ [](\A i \in DOMAIN loop_calls :
            IsRaisedCall(loop_calls[i]) =>
                LET jd == loop_calls[i].job_id IN
                /\ i = Len(loop_calls)
                /\ \A w \in LoopThreads : worker_pc[w] = "dead" /\ LoopHolds(w, jd)
                /\ StepsOf(jd) = <<"queued", "running", "f">>
                /\ ~LoopCompleted(jd)
                /\ \A j \in JobIds :
                    /\ InQueue(j) => StepsOf(j) = <<"queued">>
                    /\ (Deferred(j) /\ pc[j] = "returned") =>
                            returned[j].http = (IF TimesPushed(j) = 1 THEN 202 ELSE 429))
    /\ [][LoopRaised =>
            /\ worker_pc' = worker_pc
            /\ worker_job' = worker_job
            /\ loop_calls' = loop_calls
            /\ IsPrefix(task_queue, task_queue')
            /\ \A j \in JobIds :
                (pc[j] = "new" /\ Deferred(j)') =>
                    pc'[j] = (IF MAX_QUEUE_LENGTH > 0 /\ Len(task_queue) >= MAX_QUEUE_LENGTH
                              THEN "reject" ELSE "log_queued")]_vars

\* The loop thread has ended on the first job; the job admitted next got 202
\* and sits in the queue, not run, and with the queue at its maximum the job
\* after it got 429.
C17_Witness ==
    \E w \in LoopThreads : \E j, k \in JobIds :
        /\ LoopRaised /\ worker_pc[w] = "dead" /\ worker_job[w].job_id < j /\ j < k
        /\ InQueue(j) /\ returned[j].http = 202 /\ StepsOf(j) = <<"queued">>
        /\ MAX_QUEUE_LENGTH = 1
        /\ Deferred(k) /\ pc[k] = "returned" /\ returned[k].http = 429

----------------------------------------------------------------------------
(* C18 *)

\* The deferred jobs that were put on the queue and have no done StatusEvent.
Unfinished == { j \in JobIds : TimesPushed(j) > 0 /\ EventsOf(j, "done") = <<>> }

\* C18: with a maximum > 0 and admissions served one at a time, the queue
\* never holds more than the maximum, and the deferred jobs admitted and not
\* yet done are never more than the maximum plus 1: the jobs in the queue
\* and the one the loop has popped, which the capacity gate does not count.
C18_GateCountsQueuedOnly ==
    (MAX_QUEUE_LENGTH > 0 /\ handlers = 1) =>
        /\ Len(task_queue) <= MAX_QUEUE_LENGTH
        /\ Cardinality(Unfinished) <= MAX_QUEUE_LENGTH + 1
        /\ \A j \in Unfinished : InQueue(j) \/ \E w \in LoopThreads : LoopHolds(w, j)

\* The loop holds a popped job that is not done, and the gate, reading an
\* empty queue, let the next job in: maximum plus 1 jobs are admitted and
\* not done.
C18_Witness ==
    \E w \in LoopThreads : \E j \in JobIds :
        /\ MAX_QUEUE_LENGTH > 0 /\ handlers = 1
        /\ worker_job[w] # NoJob /\ worker_job[w].job_id \in Unfinished
        /\ j \in Unfinished /\ InQueue(j) /\ seen_qsize[j] = 0
        /\ pc[j] = "returned" /\ returned[j].http = 202
        /\ Len(task_queue) = MAX_QUEUE_LENGTH
        /\ Cardinality(Unfinished) = MAX_QUEUE_LENGTH + 1

----------------------------------------------------------------------------
(* C19 *)

\* Job j came to an endpoint without bypass with the callback key present
\* and empty.
HasEmptyCallback(j) == Arrived(j) /\ ~bypass_queue[j] /\ data[j] = [webhook_url |-> ""]

\* C19: a job whose payload has the callback key with an empty value never
\* takes the inline path: unless its admission saw the queue full it gets the
\* queued StatusEvent, one push and the 202 acknowledgement, the loop runs
\* its closure once and emits its done StatusEvent, and the loop completes it
\* without any call of the Notifier, at any time.
C19_EmptyCallbackDeferredUnnotified ==
    \A j \in JobIds :
        HasEmptyCallback(j) =>
            /\ pc[j] \notin {"inline_call", "inline_done"}
            /\ CallsOf(j, "send_webhook") = <<>>
            /\ SawRoom(j) =>
                /\ IsPrefix(StepsOf(j), <<"queued", "running", "f", "done">>)
                /\ pc[j] = "returned" =>
                        /\ TimesPushed(j) = 1
                        /\ returned[j].http = 202
                /\ LoopCompleted(j) => StepsOf(j) = <<"queued", "running", "f", "done">>

\* A job with an empty callback value was acknowledged with 202, run by the
\* loop and completed with its done StatusEvent, and nobody was notified.
C19_Witness ==
    \E j \in JobIds :
        /\ HasEmptyCallback(j)
        /\ pc[j] = "returned" /\ returned[j].http = 202
        /\ LoopCompleted(j)
        /\ response[j] \in Results
        /\ Len(EventsOf(j, "done")) = 1
        /\ EventsOf(j, "done")[1].response.code = response[j][3]
        /\ CallsOf(j, "send_webhook") = <<>>

----------------------------------------------------------------------------
(* C20 *)

\* The Notifier calls the loop made for job j.
LoopPostsOf(j) ==
    SelectSeq(loop_calls, LAMBDA c : c.op = "send_webhook" /\ c.job_id = j)

\* C20: every call of the Notifier is one the loop made, and for a job on the
\* inline path there is none, whatever its payload: a bypass endpoint with a
\* non-empty callback address hands the closure's result back in the
\* envelope the request returns, and nowhere else.
C20_NotifierOnlyFromLoop ==
    \A j \in JobIds :
        /\ CallsOf(j, "send_webhook") = LoopPostsOf(j)
        /\ Inline(j) =>
            /\ CallsOf(j, "send_webhook") = <<>>
            /\ (pc[j] = "returned" /\ response[j] # Raised) =>
                    /\ returned[j].envelope = response_obj(response[j], j, times[j])
                    /\ returned[j].http = response[j][3]

\* A request with a callback address on a bypass endpoint got the closure's
\* body back with 200, and the Notifier was not called for it, while another
\* job was notified by the loop.
C20_Witness ==
    \E j, k \in JobIds :
        /\ Arrived(j) /\ bypass_queue[j] /\ data[j] = [webhook_url |-> HookUrl]
        /\ pc[j] = "returned" /\ returned[j].http = 200
        /\ returned[j].envelope.response = "body"
        /\ CallsOf(j, "send_webhook") = <<>>
        /\ Len(LoopPostsOf(k)) = 1

====
